---- MODULE Spec2Model ----
(***************************************************************************)
(* The room turn/roll state machine of server/game-server.js               *)
(* (src/unnamed/part_000): one room, its players, the bootstrap fetches in *)
(* flight, the pending timers of the roll pipeline and the messages each   *)
(* handler emits.  Handlers and timer callbacks run to completion, so each *)
(* is one action.                                                          *)
(***************************************************************************)
EXTENDS Integers, Sequences, FiniteSets, TLC

\* ---------------------------------------------------------------- bounds
NumUids == 2        \* distinct player ids that may connect
MaxRolls == 2       \* accepted rolls in one behaviour
MaxFetches == 2     \* bootstrap fetches issued in one behaviour
MaxConns == 2       \* sockets opened in one behaviour
TailLen == 3        \* SpecBoard starts with every player on the last TailLen+1 tiles

\* ------------------------------------------------------ program constants
LastTile == 99
DieFaces == 6
MaxChoice == 3
DefaultGameMin == 20
DefaultTpq == 10
DefaultGameSec == 1200

Uids == 1..NumUids
NoUid == 0          \* null turnUid
Everyone == 0       \* addressee of a broadcast
NoQid == -1         \* a question id no tile has

Min(a, b) == IF a < b THEN a ELSE b
Max(a, b) == IF a > b THEN a ELSE b

VARIABLES
    R,          \* rooms.get(roomId): the room record
    timers,     \* pending setTimeout callbacks with the values they close over
    fetches,    \* bootstrap fetches in flight: callback -> how many
    out,        \* messages emitted by the last handler, in order
    nRolls,     \* rolls accepted so far (numbers the pipelines and their timers)
    nFetch,     \* fetches issued so far
    nConn       \* sockets opened so far

vars == <<R, timers, fetches, out, nRolls, nFetch, nConn>>

\* awaitingAnswer: null
NoAwait == [uid |-> NoUid, from |-> 0, tile |-> 0, qid |-> NoQid, timeoutId |-> 0]

DefaultConfig == [game_time_sec |-> DefaultGameSec, time_per_question_sec |-> DefaultTpq]

\* An empty Map / an empty object
Empty == [x \in {} |-> 0]

NewRoom ==
    [ players |-> <<>>, pos |-> Empty, score |-> Empty, ws |-> Empty,
      turnUid |-> NoUid,
      configLoaded |-> FALSE, config |-> DefaultConfig,
      questionsLoaded |-> FALSE, questions |-> Empty,
      awaitingAnswer |-> NoAwait, turnBusy |-> FALSE,
      rollInFlightByUid |-> {}, answeredCorrectTiles |-> {},
      gameOver |-> FALSE ]

Joined(room) == {room.players[i] : i \in 1..Len(room.players)}

\* The state a handler works on, with the messages it has emitted so far.
Cur == [R |-> R, timers |-> timers, fetches |-> fetches, out |-> <<>>,
        nRolls |-> nRolls, nFetch |-> nFetch]

Commit(S) ==
    /\ R' = S.R
    /\ timers' = S.timers
    /\ fetches' = S.fetches
    /\ out' = S.out
    /\ nRolls' = S.nRolls
    /\ nFetch' = S.nFetch

send(S, to, m) == [S EXCEPT !.out = Append(@, m @@ [to |-> to])]
broadcast(S, m) == send(S, Everyone, m)
Error(code) == [type |-> "error", error |-> code]

\* ------------------------------------------------------------- bootstrap
\* A JSON field as parseInt sees it: a number, a value that is no number, or absent.
Num(v) == [tag |-> "num", v |-> v]
NotANumber == [tag |-> "nan", v |-> 0]
Missing == [tag |-> "missing", v |-> 0]

Row(tile, ci, hasText) ==
    [isNull |-> FALSE, tile_number |-> tile, correct_index |-> ci, question_text |-> hasText]
\* a row that is null: reading a field of it throws
NullRow ==
    [isNull |-> TRUE, tile_number |-> Missing, correct_index |-> Missing, question_text |-> FALSE]

\* parseInt(x ?? dflt, 10) || dflt
IntOrDefault(x, dflt) ==
    IF x.tag = "num" /\ x.v # 0 THEN x.v ELSE dflt

\* lines 93-97: the tile index of row number idx (0-based)
TileIndexOf(row, idx) ==
    LET rawTile == IF row.tile_number.tag = "missing" THEN Num(idx + 1) ELSE row.tile_number
    IN  IF rawTile.tag = "num"
        THEN Max(0, Min(LastTile, rawTile.v - 1))
        ELSE Max(0, Min(LastTile, idx))

\* lines 106-109
CorrectIndexOf(row) ==
    LET ci == IF row.correct_index.tag = "num" THEN row.correct_index.v ELSE 0
    IN  Max(0, Min(MaxChoice, ci))

\* lines 92-117: j.questions.forEach, rows from position i on, into the Map qs.
\* The result names whether a row threw.
RECURSIVE ParseRows(_, _, _)
ParseRows(rows, i, qs) ==
    IF i > Len(rows) THEN [threw |-> FALSE, questions |-> qs]
    ELSE IF rows[i].isNull THEN [threw |-> TRUE, questions |-> qs]
    ELSE LET row == rows[i]
             tileIndex == TileIndexOf(row, i - 1)
             Q == [correctIndex |-> CorrectIndexOf(row), qid |-> tileIndex]
             qs2 == IF row.question_text
                    THEN [t \in DOMAIN qs \cup {tileIndex} |->
                             IF t = tileIndex THEN Q ELSE qs[t]]
                    ELSE qs
         IN  ParseRows(rows, i + 1, qs2)

HttpError == [kind |-> "http_error"]
Body(parses, hasRoom, gameMin, tpq, isArray, rows) ==
    [kind |-> "body", parses |-> parses, hasRoom |-> hasRoom,
     game_time_min |-> gameMin, time_per_question_sec |-> tpq,
     isArray |-> isArray, rows |-> rows]

\* lines 69-126: the callback of httpGet applied to the room (cb excluded)
BootstrapLoaded(room, res) ==
    LET failed == [room EXCEPT !.configLoaded = TRUE, !.questionsLoaded = TRUE,
                               !.questions = Empty]
    IN  IF res.kind = "http_error" THEN failed
        ELSE IF ~res.parses THEN failed
        ELSE LET cfg == IF res.hasRoom
                        THEN [game_time_sec |->
                                 IntOrDefault(res.game_time_min, DefaultGameMin) * 60,
                              time_per_question_sec |->
                                 IntOrDefault(res.time_per_question_sec, DefaultTpq)]
                        ELSE room.config
                 parsed == IF res.isArray THEN ParseRows(res.rows, 1, Empty)
                           ELSE [threw |-> FALSE, questions |-> Empty]
             IN  IF parsed.threw
                 THEN [failed EXCEPT !.config = cfg]
                 ELSE [room EXCEPT !.config = cfg, !.configLoaded = TRUE,
                                   !.questions = parsed.questions,
                                   !.questionsLoaded = TRUE]

\* ---------------------------------------------------------------- turns
\* Array.findIndex: the 0-based index of uid in the join order, -1 if absent
FindIndex(arr, uid) ==
    IF \E i \in 1..Len(arr) : arr[i] = uid
    THEN (CHOOSE i \in 1..Len(arr) : arr[i] = uid) - 1
    ELSE -1

\* rotateTurn without the wrap to the first player
rotateTurn_noWrap(room, justPlayedUid) ==
    LET arr == room.players
    IN  IF Len(arr) = 0 THEN [room EXCEPT !.turnUid = NoUid]
        ELSE LET idx == Max(0, FindIndex(arr, justPlayedUid))
             IN  [room EXCEPT !.turnUid = arr[Min(idx + 1, Len(arr) - 1) + 1]]

rotateTurn(room, justPlayedUid) ==
    LET arr == room.players
    IN  IF Len(arr) = 0 THEN [room EXCEPT !.turnUid = NoUid]
        ELSE LET idx == Max(0, FindIndex(arr, justPlayedUid))
             IN  [room EXCEPT !.turnUid = arr[((idx + 1) % Len(arr)) + 1]]

TurnUpdate(room) == [type |-> "turn.update", turnUid |-> room.turnUid]

\* lines 319-320 / 409-410
ScoresObj(room) == room.score

\* clearTimeout(timeoutId)
clearTimeout(ts, timeoutId) == {t \in ts : ~(t.kind = "timeout" /\ t.id = timeoutId)}

Timer(kind, id, uid, from, to, roll, qid) ==
    [kind |-> kind, id |-> id, uid |-> uid, from |-> from, to |-> to,
     roll |-> roll, qid |-> qid]

\* -------------------------------------------------------- the roll pipeline
\* the skip as an if instead of a while: one answered tile is skipped, not a run
RECURSIVE SkipAnswered_once(_, _)
SkipAnswered_once(to, answered) ==
    IF to < LastTile /\ to \in answered THEN to + 1 ELSE to

\* lines 233-235: skip forward over tiles answered correctly, never past the last
RECURSIVE SkipAnswered(_, _)
SkipAnswered(to, answered) ==
    IF to < LastTile /\ to \in answered THEN SkipAnswered(to + 1, answered) ELSE to

\* lines 228-235
Destination(from, roll, answered) ==
    SkipAnswered(IF from + roll > LastTile THEN LastTile ELSE from + roll, answered)

\* handleRoll without the busy and in-flight guards of lines 215-216
handleRoll_unguarded(S, uid, roll) ==
    IF uid # S.R.turnUid THEN send(S, uid, Error("not_your_turn"))
    ELSE IF S.R.gameOver THEN send(S, uid, Error("game_over"))
    ELSE IF uid \notin Joined(S.R) THEN S
    ELSE LET from == S.R.pos[uid]
             to == Destination(from, roll, S.R.answeredCorrectTiles)
             id == S.nRolls + 1
             S1 == [S EXCEPT !.R.turnBusy = TRUE,
                             !.R.rollInFlightByUid = @ \cup {uid},
                             !.nRolls = id,
                             !.timers = @ \cup {Timer("commit", id, uid, from, to, roll, NoQid)}]
         IN  broadcast(S1, [type |-> "roll.result", uid |-> uid, roll |-> roll])

\* handleRoll forgetting to set turnBusy (line 221)
handleRoll_notBusy(S, uid, roll) ==
    IF uid # S.R.turnUid THEN send(S, uid, Error("not_your_turn"))
    ELSE IF S.R.turnBusy THEN send(S, uid, Error("turn_busy"))
    ELSE IF uid \in S.R.rollInFlightByUid THEN send(S, uid, Error("roll_in_flight"))
    ELSE IF S.R.gameOver THEN send(S, uid, Error("game_over"))
    ELSE IF uid \notin Joined(S.R) THEN S
    ELSE LET from == S.R.pos[uid]
             to == Destination(from, roll, S.R.answeredCorrectTiles)
             id == S.nRolls + 1
             S1 == [S EXCEPT !.R.rollInFlightByUid = @ \cup {uid},
                             !.nRolls = id,
                             !.timers = @ \cup {Timer("commit", id, uid, from, to, roll, NoQid)}]
         IN  broadcast(S1, [type |-> "roll.result", uid |-> uid, roll |-> roll])

\* lines 213-243 and 337-338: the guards, the die (roll, drawn by the caller of the
\* model), the target and the first timer
handleRoll(S, uid, roll) ==
    IF uid # S.R.turnUid THEN send(S, uid, Error("not_your_turn"))
    ELSE IF S.R.turnBusy THEN send(S, uid, Error("turn_busy"))
    ELSE IF uid \in S.R.rollInFlightByUid THEN send(S, uid, Error("roll_in_flight"))
    ELSE IF S.R.gameOver THEN send(S, uid, Error("game_over"))
    ELSE IF uid \notin Joined(S.R) THEN S
    ELSE LET from == S.R.pos[uid]
             to == Destination(from, roll, S.R.answeredCorrectTiles)
             id == S.nRolls + 1
             S1 == [S EXCEPT !.R.turnBusy = TRUE,
                             !.R.rollInFlightByUid = @ \cup {uid},
                             !.nRolls = id,
                             !.timers = @ \cup {Timer("commit", id, uid, from, to, roll, NoQid)}]
         IN  broadcast(S1, [type |-> "roll.result", uid |-> uid, roll |-> roll])

\* lines 338-352: the dice-animation timer fires
commitMove(S, t) ==
    LET S1 == [S EXCEPT !.R.pos[t.uid] = t.to,
                        !.timers = (@ \ {t}) \cup
                            {Timer("show", t.id, t.uid, t.from, t.to, t.roll, NoQid)}]
    IN  broadcast(S1, [type |-> "move.commit", uid |-> t.uid, from |-> t.from, to |-> t.to])

\* lines 276-292: the passive question view, to every other player in join order
RECURSIVE sendPassive(_, _, _)
sendPassive(S, i, m) ==
    IF i > Len(S.R.players) THEN S
    ELSE IF S.R.players[i] = m.uid THEN sendPassive(S, i + 1, m)
    ELSE sendPassive(send(S, S.R.players[i], m @@ [passive |-> TRUE]), i + 1, m)

\* showQuestionForTile leaving the roller's in-flight marker set on a tile without
\* a question (line 250 missing)
showQuestionForTile_keepsInFlight(S, t) ==
    LET S0 == [S EXCEPT !.timers = @ \ {t}]
    IN  IF t.to \notin DOMAIN S0.R.questions
        THEN LET room == rotateTurn([S0.R EXCEPT !.turnBusy = FALSE], t.uid)
             IN  broadcast([S0 EXCEPT !.R = room], TurnUpdate(room))
        ELSE LET Q == S0.R.questions[t.to]
                 cleared == IF S0.R.awaitingAnswer # NoAwait
                            THEN clearTimeout(S0.timers, S0.R.awaitingAnswer.timeoutId)
                            ELSE S0.timers
                 timeSec == S0.R.config.time_per_question_sec
                 show == [type |-> "question.show", uid |-> t.uid, tile_index |-> t.to,
                          qid |-> Q.qid, time_sec |-> timeSec]
                 S1 == sendPassive(send(S0, t.uid, show), 1, show)
             IN  [S1 EXCEPT
                    !.timers = cleared \cup
                        {Timer("timeout", t.id, t.uid, t.from, t.to, t.roll, Q.qid)},
                    !.R.awaitingAnswer =
                        [uid |-> t.uid, from |-> t.from, tile |-> t.to, qid |-> Q.qid,
                         timeoutId |-> t.id]]

\* showQuestionForTile arming no countdown (lines 295-332 missing)
showQuestionForTile_noCountdown(S, t) ==
    LET S0 == [S EXCEPT !.timers = @ \ {t}]
    IN  IF t.to \notin DOMAIN S0.R.questions
        THEN LET room == rotateTurn([S0.R EXCEPT !.turnBusy = FALSE,
                                                 !.rollInFlightByUid = @ \ {t.uid}],
                                    t.uid)
             IN  broadcast([S0 EXCEPT !.R = room], TurnUpdate(room))
        ELSE LET Q == S0.R.questions[t.to]
                 cleared == IF S0.R.awaitingAnswer # NoAwait
                            THEN clearTimeout(S0.timers, S0.R.awaitingAnswer.timeoutId)
                            ELSE S0.timers
                 timeSec == S0.R.config.time_per_question_sec
                 show == [type |-> "question.show", uid |-> t.uid, tile_index |-> t.to,
                          qid |-> Q.qid, time_sec |-> timeSec]
                 S1 == sendPassive(send(S0, t.uid, show), 1, show)
             IN  [S1 EXCEPT
                    !.timers = cleared,
                    !.R.awaitingAnswer =
                        [uid |-> t.uid, from |-> t.from, tile |-> t.to, qid |-> Q.qid,
                         timeoutId |-> t.id]]

\* lines 246-335: the second timer fires
showQuestionForTile(S, t) ==
    LET S0 == [S EXCEPT !.timers = @ \ {t}]
    IN  IF t.to \notin DOMAIN S0.R.questions
        THEN LET room == rotateTurn([S0.R EXCEPT !.turnBusy = FALSE,
                                                 !.rollInFlightByUid = @ \ {t.uid}],
                                    t.uid)
             IN  broadcast([S0 EXCEPT !.R = room], TurnUpdate(room))
        ELSE LET Q == S0.R.questions[t.to]
                 cleared == IF S0.R.awaitingAnswer # NoAwait
                            THEN clearTimeout(S0.timers, S0.R.awaitingAnswer.timeoutId)
                            ELSE S0.timers
                 timeSec == S0.R.config.time_per_question_sec
                 show == [type |-> "question.show", uid |-> t.uid, tile_index |-> t.to,
                          qid |-> Q.qid, time_sec |-> timeSec]
                 S1 == sendPassive(send(S0, t.uid, show), 1, show)
             IN  [S1 EXCEPT
                    !.timers = cleared \cup
                        {Timer("timeout", t.id, t.uid, t.from, t.to, t.roll, Q.qid)},
                    !.R.awaitingAnswer =
                        [uid |-> t.uid, from |-> t.from, tile |-> t.to, qid |-> Q.qid,
                         timeoutId |-> t.id]]

\* the countdown resolving without moving the player back (line 307 missing)
questionTimeout_noRevert(S, t) ==
    LET S0 == [S EXCEPT !.timers = @ \ {t}]
        awaiting == S0.R.awaitingAnswer
    IN  IF awaiting = NoAwait \/ awaiting.uid # t.uid \/ awaiting.qid # t.qid THEN S0
        ELSE LET R1 == [S0.R EXCEPT !.awaitingAnswer = NoAwait, !.turnBusy = FALSE,
                                    !.rollInFlightByUid = @ \ {t.uid}]
                 S1 == broadcast([S0 EXCEPT !.R = R1],
                            [type |-> "move.commit", uid |-> t.uid,
                             from |-> R1.pos[t.uid], to |-> awaiting.from])
                 R3 == rotateTurn(R1, t.uid)
                 S2 == broadcast([S1 EXCEPT !.R = R3],
                            [type |-> "answer.result", uid |-> t.uid, correct |-> FALSE,
                             tile_index |-> awaiting.tile, scores |-> ScoresObj(R3),
                             turnUid |-> R3.turnUid])
             IN  broadcast(S2, TurnUpdate(R3))

\* lines 295-332: the countdown fires
questionTimeout(S, t) ==
    LET S0 == [S EXCEPT !.timers = @ \ {t}]
        awaiting == S0.R.awaitingAnswer
    IN  IF awaiting = NoAwait \/ awaiting.uid # t.uid \/ awaiting.qid # t.qid THEN S0
        ELSE LET R1 == [S0.R EXCEPT !.awaitingAnswer = NoAwait, !.turnBusy = FALSE,
                                    !.rollInFlightByUid = @ \ {t.uid}]
                 known == t.uid \in Joined(R1)
                 R2 == IF known THEN [R1 EXCEPT !.pos[t.uid] = awaiting.from] ELSE R1
                 S1 == IF known
                       THEN broadcast([S0 EXCEPT !.R = R2],
                                [type |-> "move.commit", uid |-> t.uid,
                                 from |-> R1.pos[t.uid], to |-> awaiting.from])
                       ELSE S0
                 R3 == rotateTurn(R2, t.uid)
                 S2 == broadcast([S1 EXCEPT !.R = R3],
                            [type |-> "answer.result", uid |-> t.uid, correct |-> FALSE,
                             tile_index |-> awaiting.tile, scores |-> ScoresObj(R3),
                             turnUid |-> R3.turnUid])
             IN  broadcast(S2, TurnUpdate(R3))

fireTimer(S, t) ==
    CASE t.kind = "commit" -> commitMove(S, t)
      [] t.kind = "show" -> showQuestionForTile(S, t)
      [] t.kind = "timeout" -> questionTimeout(S, t)

\* ------------------------------------------------------ bootstrap callbacks
SyncCb(uid) == [kind |-> "sync", uid |-> uid]
RollCb(uid) == [kind |-> "roll", uid |-> uid]
Callbacks == {SyncCb(u) : u \in Uids} \cup {RollCb(u) : u \in Uids}

\* lines 178-190
StateSync(room) ==
    [type |-> "state.sync", pos |-> room.pos, score |-> room.score,
     turnUid |-> room.turnUid, config |-> room.config,
     answeredTiles |-> room.answeredCorrectTiles]

\* cb(): the continuation handed to ensureRoomBootstrap
runCallback(S, cb, roll) ==
    IF cb.kind = "sync" THEN send(S, cb.uid, StateSync(S.R))
    ELSE handleRoll(S, cb.uid, roll)

\* lines 64-69: run cb at once when loaded, else issue a fetch that will run it
ensureRoomBootstrap(S, cb, roll) ==
    IF S.R.configLoaded /\ S.R.questionsLoaded THEN runCallback(S, cb, roll)
    ELSE [S EXCEPT !.fetches[cb] = @ + 1, !.nFetch = @ + 1]

\* lines 69-127: a fetch completes with result res
fetchDone(S, cb, res, roll) ==
    LET S1 == [S EXCEPT !.fetches[cb] = @ - 1, !.R = BootstrapLoaded(S.R, res)]
    IN  runCallback(S1, cb, roll)

\* ------------------------------------------------------------ connections
\* a connection that hands the turn to whoever connects (the test of line 175 missing)
connection_takesTurn(S, uid, sock) ==
    LET known == uid \in Joined(S.R)
        R1 == IF known THEN [S.R EXCEPT !.ws[uid] = sock]
              ELSE [S.R EXCEPT !.players = Append(@, uid),
                               !.pos = @ @@ (uid :> 0),
                               !.score = @ @@ (uid :> 0),
                               !.ws = @ @@ (uid :> sock)]
        R2 == [R1 EXCEPT !.turnUid = uid]
    IN  ensureRoomBootstrap([S EXCEPT !.R = R2], SyncCb(uid), 1)

\* lines 149-191 (uid and room_id present)
connection(S, uid, sock) ==
    LET known == uid \in Joined(S.R)
        R1 == IF known THEN [S.R EXCEPT !.ws[uid] = sock]
              ELSE [S.R EXCEPT !.players = Append(@, uid),
                               !.pos = @ @@ (uid :> 0),
                               !.score = @ @@ (uid :> 0),
                               !.ws = @ @@ (uid :> sock)]
        R2 == IF R1.turnUid = NoUid THEN [R1 EXCEPT !.turnUid = uid] ELSE R1
    IN  ensureRoomBootstrap([S EXCEPT !.R = R2], SyncCb(uid), 1)

\* --------------------------------------------------------------- messages
\* turn.skip without the busy test (line 367 missing)
turnSkip_ignoresBusy(S, uid) ==
    IF uid # S.R.turnUid THEN send(S, uid, Error("not_your_turn"))
    ELSE LET room == rotateTurn([S.R EXCEPT !.rollInFlightByUid = @ \ {uid}], uid)
         IN  broadcast([S EXCEPT !.R = room], TurnUpdate(room))

\* lines 365-373
turnSkip(S, uid) ==
    IF uid # S.R.turnUid THEN send(S, uid, Error("not_your_turn"))
    ELSE IF S.R.turnBusy \/ S.R.awaitingAnswer # NoAwait
    THEN send(S, uid, Error("turn_busy"))
    ELSE LET room == rotateTurn([S.R EXCEPT !.rollInFlightByUid = @ \ {uid}], uid)
         IN  broadcast([S EXCEPT !.R = room], TurnUpdate(room))

\* answer.submit leaving the countdown armed (no clearTimeout, line 379)
answerSubmit_timerLeft(S, uid, msg) ==
    LET awaiting == S.R.awaitingAnswer
    IN  IF awaiting = NoAwait \/ awaiting.uid # uid \/ awaiting.qid # msg.qid THEN S
        ELSE LET tile == awaiting.tile
                 from == awaiting.from
                 correct == /\ tile \in DOMAIN S.R.questions
                            /\ msg.choice_index = S.R.questions[tile].correctIndex
                 S1 == IF correct
                       THEN [S EXCEPT !.R.score[uid] = @ + 1,
                                      !.R.answeredCorrectTiles = @ \cup {tile}]
                       ELSE broadcast([S EXCEPT !.R.pos[uid] = from],
                                [type |-> "move.commit", uid |-> uid,
                                 from |-> S.R.pos[uid], to |-> from])
                 room == rotateTurn([S1.R EXCEPT !.awaitingAnswer = NoAwait,
                                                 !.turnBusy = FALSE,
                                                 !.rollInFlightByUid = @ \ {uid}],
                                    uid)
                 S2 == broadcast([S1 EXCEPT !.R = room],
                            [type |-> "answer.result", uid |-> uid, correct |-> correct,
                             tile_index |-> tile, scores |-> ScoresObj(room),
                             answeredTiles |-> room.answeredCorrectTiles,
                             turnUid |-> room.turnUid])
             IN  broadcast(S2, TurnUpdate(room))

\* answer.submit scoring a correct answer without recording the tile (line 390)
answerSubmit_tileNotRecorded(S, uid, msg) ==
    LET awaiting == S.R.awaitingAnswer
    IN  IF awaiting = NoAwait \/ awaiting.uid # uid \/ awaiting.qid # msg.qid THEN S
        ELSE LET tile == awaiting.tile
                 from == awaiting.from
                 S0 == [S EXCEPT !.timers = clearTimeout(@, awaiting.timeoutId)]
                 correct == /\ tile \in DOMAIN S0.R.questions
                            /\ msg.choice_index = S0.R.questions[tile].correctIndex
                 S1 == IF correct
                       THEN [S0 EXCEPT !.R.score[uid] = @ + 1]
                       ELSE broadcast([S0 EXCEPT !.R.pos[uid] = from],
                                [type |-> "move.commit", uid |-> uid,
                                 from |-> S0.R.pos[uid], to |-> from])
                 room == rotateTurn([S1.R EXCEPT !.awaitingAnswer = NoAwait,
                                                 !.turnBusy = FALSE,
                                                 !.rollInFlightByUid = @ \ {uid}],
                                    uid)
                 S2 == broadcast([S1 EXCEPT !.R = room],
                            [type |-> "answer.result", uid |-> uid, correct |-> correct,
                             tile_index |-> tile, scores |-> ScoresObj(room),
                             answeredTiles |-> room.answeredCorrectTiles,
                             turnUid |-> room.turnUid])
             IN  broadcast(S2, TurnUpdate(room))

\* answer.submit announcing the next turn before the result (lines 409-423 swapped)
answerSubmit_turnUpdateFirst(S, uid, msg) ==
    LET awaiting == S.R.awaitingAnswer
    IN  IF awaiting = NoAwait \/ awaiting.uid # uid \/ awaiting.qid # msg.qid THEN S
        ELSE LET tile == awaiting.tile
                 from == awaiting.from
                 S0 == [S EXCEPT !.timers = clearTimeout(@, awaiting.timeoutId)]
                 correct == /\ tile \in DOMAIN S0.R.questions
                            /\ msg.choice_index = S0.R.questions[tile].correctIndex
                 known == uid \in Joined(S0.R)
                 S1 == IF ~known THEN S0
                       ELSE IF correct
                       THEN [S0 EXCEPT !.R.score[uid] = @ + 1,
                                       !.R.answeredCorrectTiles = @ \cup {tile}]
                       ELSE broadcast([S0 EXCEPT !.R.pos[uid] = from],
                                [type |-> "move.commit", uid |-> uid,
                                 from |-> S0.R.pos[uid], to |-> from])
                 room == rotateTurn([S1.R EXCEPT !.awaitingAnswer = NoAwait,
                                                 !.turnBusy = FALSE,
                                                 !.rollInFlightByUid = @ \ {uid}],
                                    uid)
                 S2 == broadcast([S1 EXCEPT !.R = room], TurnUpdate(room))
             IN  broadcast(S2,
                            [type |-> "answer.result", uid |-> uid, correct |-> correct,
                             tile_index |-> tile, scores |-> ScoresObj(room),
                             answeredTiles |-> room.answeredCorrectTiles,
                             turnUid |-> room.turnUid])

\* answer.submit without the comparison of the question id (line 377)
answerSubmit_anyQid(S, uid, msg) ==
    LET awaiting == S.R.awaitingAnswer
    IN  IF awaiting = NoAwait \/ awaiting.uid # uid THEN S
        ELSE LET tile == awaiting.tile
                 from == awaiting.from
                 S0 == [S EXCEPT !.timers = clearTimeout(@, awaiting.timeoutId)]
                 correct == /\ tile \in DOMAIN S0.R.questions
                            /\ msg.choice_index = S0.R.questions[tile].correctIndex
                 known == uid \in Joined(S0.R)
                 S1 == IF ~known THEN S0
                       ELSE IF correct
                       THEN [S0 EXCEPT !.R.score[uid] = @ + 1,
                                       !.R.answeredCorrectTiles = @ \cup {tile}]
                       ELSE broadcast([S0 EXCEPT !.R.pos[uid] = from],
                                [type |-> "move.commit", uid |-> uid,
                                 from |-> S0.R.pos[uid], to |-> from])
                 room == rotateTurn([S1.R EXCEPT !.awaitingAnswer = NoAwait,
                                                 !.turnBusy = FALSE,
                                                 !.rollInFlightByUid = @ \ {uid}],
                                    uid)
                 S2 == broadcast([S1 EXCEPT !.R = room],
                            [type |-> "answer.result", uid |-> uid, correct |-> correct,
                             tile_index |-> tile, scores |-> ScoresObj(room),
                             answeredTiles |-> room.answeredCorrectTiles,
                             turnUid |-> room.turnUid])
             IN  broadcast(S2, TurnUpdate(room))

\* lines 375-424
answerSubmit(S, uid, msg) ==
    LET awaiting == S.R.awaitingAnswer
    IN  IF awaiting = NoAwait \/ awaiting.uid # uid \/ awaiting.qid # msg.qid THEN S
        ELSE LET tile == awaiting.tile
                 from == awaiting.from
                 S0 == [S EXCEPT !.timers = clearTimeout(@, awaiting.timeoutId)]
                 correct == /\ tile \in DOMAIN S0.R.questions
                            /\ msg.choice_index = S0.R.questions[tile].correctIndex
                 known == uid \in Joined(S0.R)
                 S1 == IF ~known THEN S0
                       ELSE IF correct
                       THEN [S0 EXCEPT !.R.score[uid] = @ + 1,
                                       !.R.answeredCorrectTiles = @ \cup {tile}]
                       ELSE broadcast([S0 EXCEPT !.R.pos[uid] = from],
                                [type |-> "move.commit", uid |-> uid,
                                 from |-> S0.R.pos[uid], to |-> from])
                 room == rotateTurn([S1.R EXCEPT !.awaitingAnswer = NoAwait,
                                                 !.turnBusy = FALSE,
                                                 !.rollInFlightByUid = @ \ {uid}],
                                    uid)
                 S2 == broadcast([S1 EXCEPT !.R = room],
                            [type |-> "answer.result", uid |-> uid, correct |-> correct,
                             tile_index |-> tile, scores |-> ScoresObj(room),
                             answeredTiles |-> room.answeredCorrectTiles,
                             turnUid |-> room.turnUid])
             IN  broadcast(S2, TurnUpdate(room))

\* lines 427-432
gameTimeup(S) ==
    IF S.R.gameOver THEN S
    ELSE broadcast([S EXCEPT !.R.gameOver = TRUE], [type |-> "game.over"])

\* lines 193-433: ws.on('message') for a message of this room, on a socket of uid
onMessage(S, uid, msg, roll) ==
    IF S.R.gameOver /\ msg.type \in {"roll.request", "turn.skip", "answer.submit"}
    THEN send(S, uid, Error("game_over"))
    ELSE IF S.R.awaitingAnswer # NoAwait /\ msg.type = "roll.request"
    THEN send(S, uid, Error("question_pending"))
    ELSE IF msg.type = "roll.request"
    THEN IF ~S.R.configLoaded \/ ~S.R.questionsLoaded
         THEN ensureRoomBootstrap(S, RollCb(uid), roll)
         ELSE handleRoll(S, uid, roll)
    ELSE IF msg.type = "turn.skip" THEN turnSkip(S, uid)
    ELSE IF msg.type = "answer.submit" THEN answerSubmit(S, uid, msg)
    ELSE IF msg.type = "game.timeup" THEN gameTimeup(S)
    ELSE S

\* ------------------------------------------------------------------ inputs
\* What a bootstrap fetch may end with.
GoodBody ==
    Body(TRUE, TRUE, Num(5), Num(15), TRUE,
         << Row(Num(2), Num(1), TRUE),          \* tile 1, correct 1
            Row(Num(4), Num(0), FALSE),         \* no text: discarded
            Row(Missing, Num(9), TRUE),         \* third row: tile 2, correct clamped to 3
            Row(NotANumber, Missing, TRUE) >>)  \* fourth row: tile 3, correct 0
ThrowingBody ==
    Body(TRUE, TRUE, Num(5), NotANumber, TRUE, << Row(Num(2), Num(1), TRUE), NullRow >>)
BadJson == Body(FALSE, FALSE, Missing, Missing, FALSE, << >>)
\* a bank on the last tiles of the track
BoardBody ==
    Body(TRUE, FALSE, Missing, Missing, TRUE,
         << Row(Num(98), Num(2), TRUE),         \* tile 97
            Row(Num(99), Num(0), TRUE),         \* tile 98
            Row(Num(250), Num(1), TRUE) >>)     \* clamped to tile 99

FetchResults == {HttpError, BadJson, GoodBody, ThrowingBody}

NoChoice == -1      \* a choice_index parseInt makes NaN of
\* The qid and choice_index of an answer.submit.  While nothing is awaited every
\* submission is dropped whatever it names, so one stands for all.
QidInputs(room) ==
    IF room.awaitingAnswer = NoAwait THEN {NoQid}
    ELSE {NoQid, room.awaitingAnswer.qid}
            \cup {room.questions[t].qid : t \in DOMAIN room.questions}
ChoiceInputs(room) ==
    IF room.awaitingAnswer = NoAwait THEN {NoChoice}
    ELSE (0..MaxChoice) \cup {NoChoice}
\* The die of a handler: whether a roll is accepted does not depend on the die, so
\* the faces are told apart only where the handler (here with face 1, S1) draws one.
DieInputs(S1) == IF S1.nRolls # nRolls THEN 1..DieFaces ELSE {1}

\* ----------------------------------------------------------------- actions
Init ==
    /\ R = NewRoom
    /\ timers = {}
    /\ fetches = [cb \in Callbacks |-> 0]
    /\ out = << >>
    /\ nRolls = 0
    /\ nFetch = 0
    /\ nConn = 0

Within(S) == S.nRolls <= MaxRolls /\ S.nFetch <= MaxFetches

\* Player ids are named in the order they first connect.
Connect(uid) ==
    /\ nConn < MaxConns
    /\ uid <= Len(R.players) + 1
    /\ LET S == connection(Cur, uid, nConn + 1)
       IN  Within(S) /\ Commit(S)
    /\ nConn' = nConn + 1

RollRequest(uid) ==
    /\ uid \in Joined(R)
    /\ \E roll \in DieInputs(onMessage(Cur, uid, [type |-> "roll.request"], 1)) :
          LET S == onMessage(Cur, uid, [type |-> "roll.request"], roll)
          IN  Within(S) /\ Commit(S)
    /\ UNCHANGED nConn

TurnSkip(uid) ==
    /\ uid \in Joined(R)
    /\ Commit(onMessage(Cur, uid, [type |-> "turn.skip"], 1))
    /\ UNCHANGED nConn

AnswerSubmit(uid, qid, choice) ==
    /\ uid \in Joined(R)
    /\ Commit(onMessage(Cur, uid,
          [type |-> "answer.submit", qid |-> qid, choice_index |-> choice], 1))
    /\ UNCHANGED nConn

GameTimeup(uid) ==
    /\ uid \in Joined(R)
    /\ Commit(onMessage(Cur, uid, [type |-> "game.timeup"], 1))
    /\ UNCHANGED nConn

TimerFires(t) ==
    /\ t \in timers
    /\ Commit(fireTimer(Cur, t))
    /\ UNCHANGED nConn

FetchCompletes(cb) ==
    /\ fetches[cb] > 0
    /\ \E res \in FetchResults :
       \E roll \in DieInputs(fetchDone(Cur, cb, res, 1)) :
          LET S == fetchDone(Cur, cb, res, roll)
          IN  Within(S) /\ Commit(S)
    /\ UNCHANGED nConn

Next ==
    \/ \E uid \in Uids : Connect(uid)
    \/ \E uid \in Uids : RollRequest(uid)
    \/ \E uid \in Uids : TurnSkip(uid)
    \/ \E uid \in Uids, qid \in QidInputs(R), choice \in ChoiceInputs(R) :
          AnswerSubmit(uid, qid, choice)
    \/ \E uid \in Uids : GameTimeup(uid)
    \/ \E t \in timers : TimerFires(t)
    \/ \E cb \in Callbacks : FetchCompletes(cb)

Spec == Init /\ [][Next]_vars

\* ------------------------------------------------- the end of the track
\* A game that has reached the last tiles: the bank of BoardBody was loaded by the
\* one fetch, the first k players joined and walked to resting tiles (a tile with
\* no question, or one answered correctly), each answered tile was scored by a
\* player who is on it or past it, nothing is in progress.
BoardStart == LastTile - TailLen
BoardRoom(k, pos, answered, owner, turn) ==
    [ BootstrapLoaded(NewRoom, BoardBody) EXCEPT
        !.players = [i \in 1..k |-> i],
        !.pos = pos,
        !.score = [u \in 1..k |-> Cardinality({t \in answered : owner[t] = u})],
        !.ws = [u \in 1..k |-> u],
        !.turnUid = turn,
        !.answeredCorrectTiles = answered ]

InitBoard ==
    \E k \in 1..NumUids :
    \E pos \in [1..k -> BoardStart..LastTile] :
    \E answered \in SUBSET (DOMAIN BootstrapLoaded(NewRoom, BoardBody).questions) :
    \E owner \in [answered -> 1..k] :
    \E turn \in 1..k :
        /\ \A u \in 1..k :
              pos[u] \in DOMAIN BootstrapLoaded(NewRoom, BoardBody).questions
                 => pos[u] \in answered
        /\ \A t \in answered : pos[owner[t]] >= t
        /\ R = BoardRoom(k, pos, answered, owner, turn)
        /\ timers = {}
        /\ fetches = [cb \in Callbacks |-> 0]
        /\ out = << >>
        /\ nRolls = 0
        /\ nFetch = 1
        /\ nConn = k

NextBoard ==
    \/ \E uid \in Uids : Connect(uid)
    \/ \E uid \in Uids : RollRequest(uid)
    \/ \E uid \in Uids : TurnSkip(uid)
    \/ \E uid \in Uids, qid \in QidInputs(R), choice \in ChoiceInputs(R) :
          AnswerSubmit(uid, qid, choice)
    \/ \E uid \in Uids : GameTimeup(uid)
    \/ \E t \in timers : TimerFires(t)

SpecBoard == InitBoard /\ [][NextBoard]_vars

\* ------------------------------------------------------------ observations
Sent(type) == \E i \in 1..Len(out) : out[i].type = type
SentNext(type) == \E i \in 1..Len(out') : out'[i].type = type
\* the last handler answered uid with exactly this error and said nothing else
OnlyError(o, uid, code) ==
    /\ Len(o) = 1
    /\ o[1].type = "error"
    /\ o[1].error = code
    /\ o[1].to = uid
ErrorCodes ==
    {"not_your_turn", "turn_busy", "roll_in_flight", "question_pending", "game_over"}
\* a roll.request of uid is evaluated: on arrival, or deferred until a fetch completes
RollEvaluated(uid) == RollRequest(uid) \/ FetchCompletes(RollCb(uid))
\* the room but for its bootstrap data, which a completing fetch writes
Game(room) ==
    [players |-> room.players, pos |-> room.pos, score |-> room.score, ws |-> room.ws,
     turnUid |-> room.turnUid, awaitingAnswer |-> room.awaitingAnswer,
     turnBusy |-> room.turnBusy, rollInFlightByUid |-> room.rollInFlightByUid,
     answeredCorrectTiles |-> room.answeredCorrectTiles, gameOver |-> room.gameOver]
\* the player after uid in join order, the first after the last
Successor(players, uid) ==
    LET i == CHOOSE j \in 1..Len(players) : players[j] = uid
    IN  IF i = Len(players) THEN players[1] ELSE players[i + 1]

\* ------------------------------------------------------------------ claims
\* C1: at most one roll is in progress in the room: at most one pipeline timer is
\* pending and only while turnBusy; and while turnBusy every roll.request that is
\* evaluated (on arrival or deferred, from any player) is answered with one error,
\* draws no die and starts no pipeline.
C1_OneRollInProgress ==
    /\ [](Cardinality(timers) <= 1 /\ (timers # {} => R.turnBusy))
    /\ [][\A uid \in Uids :
            (R.turnBusy /\ RollEvaluated(uid)) =>
                /\ \E code \in ErrorCodes : OnlyError(out', uid, code)
                /\ nRolls' = nRolls
                /\ timers' = timers
                /\ Game(R') = Game(R)]_vars
\* a duplicate roll.request of the roller was rejected while the roll is in progress
C1_Witness ==
    /\ R.turnBusy
    /\ timers # {}
    /\ OnlyError(out, R.turnUid, "turn_busy")

\* C2: while an awaitingAnswer exists turnBusy is true, and an awaitingAnswer is
\* recorded only when none exists.
C2_AwaitingImpliesBusy ==
    /\ [](R.awaitingAnswer # NoAwait => R.turnBusy)
    /\ [][(R.awaitingAnswer' # R.awaitingAnswer /\ R.awaitingAnswer' # NoAwait)
            => R.awaitingAnswer = NoAwait]_vars
C2_Witness ==
    /\ R.awaitingAnswer # NoAwait
    /\ R.turnBusy
    /\ Sent("question.show")

\* C3: a challenge is resolved once.  A countdown is pending only for the challenge
\* that is outstanding (answer.submit cancels it), so a countdown that fires always
\* finds its own challenge and never a later one with the same player and qid; and
\* a challenge once resolved (numbered by its timer) is never outstanding again.
C3_ResolvedOnce ==
    /\ [](\A t \in timers : t.kind = "timeout" =>
             R.awaitingAnswer # NoAwait /\ R.awaitingAnswer.timeoutId = t.id)
    /\ [][\A t \in timers :
            (TimerFires(t) /\ t.kind = "timeout") =>
                R.awaitingAnswer.timeoutId = t.id /\ R.awaitingAnswer' = NoAwait]_vars
    /\ [][R.awaitingAnswer' # NoAwait =>
            R.awaitingAnswer'.timeoutId >= R.awaitingAnswer.timeoutId
            /\ R.awaitingAnswer'.timeoutId = nRolls']_vars
\* the second challenge of the same player on the same tile is outstanding, the
\* first having been resolved by an answer.submit or its countdown
C3_Witness ==
    /\ R.awaitingAnswer # NoAwait
    /\ R.awaitingAnswer.timeoutId = 2
    /\ R.awaitingAnswer.from = 0
    /\ Len(R.players) = 1
    /\ \E t \in timers : t.kind = "timeout" /\ t.id = 2

\* C4: a completed cycle (a roll ending on a tile without question, an accepted
\* answer.submit, a countdown, an accepted turn.skip) hands the turn to the player
\* after the acting one in join order, the first after the last; and the turn
\* moves in no other step, but for the first connection.
CycleCompletedBy(uid) ==
    \/ \E t \in timers :
          /\ TimerFires(t)
          /\ t.uid = uid
          /\ \/ t.kind = "show" /\ t.to \notin DOMAIN R.questions
             \/ t.kind = "timeout"
    \/ \E qid \in QidInputs(R), choice \in ChoiceInputs(R) :
          /\ AnswerSubmit(uid, qid, choice)
          /\ ~R.gameOver
          /\ R.awaitingAnswer # NoAwait
          /\ R.awaitingAnswer.uid = uid
          /\ R.awaitingAnswer.qid = qid
    \/ /\ TurnSkip(uid)
       /\ ~R.gameOver /\ uid = R.turnUid /\ ~R.turnBusy /\ R.awaitingAnswer = NoAwait
C4_RotationIsCyclic ==
    /\ [][\A uid \in Uids :
            CycleCompletedBy(uid) =>
                /\ R'.turnUid = Successor(R.players, uid)
                /\ SentNext("turn.update")]_vars
    /\ [][R'.turnUid # R.turnUid =>
            \/ \E uid \in Uids : CycleCompletedBy(uid)
            \/ R.turnUid = NoUid /\ Connect(R'.turnUid)]_vars
\* the turn wrapped from the last joined player to the first
C4_Witness ==
    /\ Len(R.players) = 2
    /\ R.turnUid = R.players[1]
    /\ \E i \in 1..Len(out) :
          out[i].type = "answer.result" /\ out[i].uid = R.players[2]

\* C5: every roll in progress has its destination in [origin, 99], equal to the
\* smallest tile >= min(99, origin + die) that is not answered, or 99 when no
\* such tile below 99 exists; the roller stands on the origin until the move is
\* committed and on the destination afterwards.
SmallestFree(raw, answered) ==
    LET free == {x \in raw..(LastTile - 1) : x \notin answered}
    IN  IF free = {} THEN LastTile
        ELSE CHOOSE x \in free : \A y \in free : x <= y
C5_Destination ==
    \A t \in timers :
        /\ t.from \in 0..LastTile
        /\ t.roll \in 1..DieFaces
        /\ t.to \in t.from..LastTile
        /\ t.to = SmallestFree(Min(LastTile, t.from + t.roll), R.answeredCorrectTiles)
        /\ R.pos[t.uid] = (IF t.kind = "commit" THEN t.from ELSE t.to)
\* a committed move that skipped a run of answered tiles and ended on the answered 99
C5_Witness ==
    \E t \in timers :
        /\ t.kind = "show"
        /\ t.from + t.roll < LastTile - 1
        /\ t.to = LastTile
        /\ LastTile \in R.answeredCorrectTiles
        /\ R.pos[t.uid] = LastTile

\* C6: the question of a tile in answeredTiles is never shown again: no
\* awaitingAnswer and no question.show is for an answered tile.
C6_AnsweredNeverShown ==
    /\ R.awaitingAnswer # NoAwait =>
          R.awaitingAnswer.tile \notin R.answeredCorrectTiles
    /\ \A i \in 1..Len(out) :
          out[i].type = "question.show" =>
              out[i].tile_index \notin R.answeredCorrectTiles

\* C7: an answer.submit of the challenged player that names the outstanding qid
\* with the correct index of the tile's question adds 1 to that player's score,
\* adds the tile to answeredTiles and changes no position and no other score, the
\* player standing on the tile; answeredTiles never loses a tile.
CorrectAnswer(uid, qid, choice) ==
    /\ AnswerSubmit(uid, qid, choice)
    /\ R.awaitingAnswer # NoAwait
    /\ R.awaitingAnswer.uid = uid
    /\ R.awaitingAnswer.qid = qid
    /\ R.awaitingAnswer.tile \in DOMAIN R.questions
    /\ choice = R.questions[R.awaitingAnswer.tile].correctIndex
Scored(uid) ==
    /\ R'.score = [R.score EXCEPT ![uid] = @ + 1]
    /\ R'.answeredCorrectTiles = R.answeredCorrectTiles \cup {R.awaitingAnswer.tile}
    /\ R'.pos = R.pos
    /\ R'.pos[uid] = R.awaitingAnswer.tile
\* C7 as claimed: a correct answer.submit of the challenged player always scores.
C7_CorrectAnswerScores ==
    /\ [][\A uid \in Uids, qid \in QidInputs(R), choice \in ChoiceInputs(R) :
            CorrectAnswer(uid, qid, choice) => Scored(uid)]_vars
    /\ [][R.answeredCorrectTiles \subseteq R'.answeredCorrectTiles]_vars
\* C7 as amended: while the game is not over, a correct answer.submit of the
\* challenged player scores as described; answeredTiles never loses a tile.
C7_CorrectAnswerScoresUnlessOver ==
    /\ [][\A uid \in Uids, qid \in QidInputs(R), choice \in ChoiceInputs(R) :
            (CorrectAnswer(uid, qid, choice) /\ ~R.gameOver) => Scored(uid)]_vars
    /\ [][R.answeredCorrectTiles \subseteq R'.answeredCorrectTiles]_vars
C7_Witness ==
    /\ \E i \in 1..Len(out) :
          /\ out[i].type = "answer.result"
          /\ out[i].correct
          /\ out[i].tile_index \in R.answeredCorrectTiles
          /\ R.score[out[i].uid] = 1
          /\ R.pos[out[i].uid] = out[i].tile_index

\* C8: the countdown and an accepted incorrect answer.submit resolve a challenge
\* to the same room: the player back on the origin, scores and answeredTiles
\* as they were, no awaitingAnswer, turnBusy false, the roller out of
\* rollInFlight, the turn with the roller's successor, no countdown left.
Reverted(room) ==
    LET a == room.awaitingAnswer
    IN  [room EXCEPT !.pos = [u \in DOMAIN room.pos |->
                                 IF u = a.uid THEN a.from ELSE room.pos[u]],
                     !.awaitingAnswer = NoAwait,
                     !.turnBusy = FALSE,
                     !.rollInFlightByUid = {u \in room.rollInFlightByUid : u # a.uid},
                     !.turnUid = Successor(room.players, a.uid)]
IncorrectAnswer(uid, qid, choice) ==
    /\ AnswerSubmit(uid, qid, choice)
    /\ ~R.gameOver
    /\ R.awaitingAnswer # NoAwait
    /\ R.awaitingAnswer.uid = uid
    /\ R.awaitingAnswer.qid = qid
    /\ ~(/\ R.awaitingAnswer.tile \in DOMAIN R.questions
         /\ choice = R.questions[R.awaitingAnswer.tile].correctIndex)
C8_TimeoutIsIncorrectAnswer ==
    /\ [][\A t \in timers :
            (TimerFires(t) /\ t.kind = "timeout") =>
                R' = Reverted(R) /\ timers' = {}]_vars
    /\ [][\A uid \in Uids, qid \in QidInputs(R), choice \in ChoiceInputs(R) :
            IncorrectAnswer(uid, qid, choice) =>
                R' = Reverted(R) /\ timers' = {}]_vars
\* a countdown has resolved a challenge of a player who had moved off tile 0
C8_Witness ==
    /\ R.awaitingAnswer = NoAwait
    /\ ~R.turnBusy
    /\ \E i \in 1..Len(out) :
          /\ out[i].type = "answer.result"
          /\ "answeredTiles" \notin DOMAIN out[i]
          /\ out[i].uid \notin R.rollInFlightByUid
          /\ R.pos[out[i].uid] < out[i].tile_index

\* C9 (for a game that is not over, where game_over comes first): while an
\* awaitingAnswer exists every roll.request that is evaluated, on arrival or
\* deferred, is answered with question_pending and changes nothing of the game.
C9_QuestionPending ==
    [][\A uid \in Uids :
          (R.awaitingAnswer # NoAwait /\ ~R.gameOver /\ RollEvaluated(uid)) =>
              OnlyError(out', uid, "question_pending") /\ Game(R') = Game(R)]_vars

\* C10: gameOver is sticky, the first game.timeup sets it and broadcasts
\* game.over once, a later one does nothing, and once gameOver is true every
\* roll.request, turn.skip and answer.submit is answered game_over and changes
\* nothing of the game.
C10_GameOverSticky ==
    /\ [][R.gameOver => R'.gameOver]_vars
    /\ [][\A uid \in Uids :
            GameTimeup(uid) =>
                IF R.gameOver THEN R' = R /\ out' = << >>
                ELSE /\ R' = [R EXCEPT !.gameOver = TRUE]
                     /\ out' = << [type |-> "game.over", to |-> Everyone] >>]_vars
    /\ [][\A uid \in Uids :
            (R.gameOver /\
               (\/ RollEvaluated(uid)
                \/ TurnSkip(uid)
                \/ \E qid \in QidInputs(R), choice \in ChoiceInputs(R) :
                      AnswerSubmit(uid, qid, choice))) =>
                OnlyError(out', uid, "game_over") /\ Game(R') = Game(R)]_vars


\* a fetch completes with result res and runs the callback cb
FetchCompletesWith(cb, res) ==
    /\ fetches[cb] > 0
    /\ \E roll \in 1..DieFaces : Commit(fetchDone(Cur, cb, res, roll))
    /\ UNCHANGED nConn
Loaded(room) == room.configLoaded /\ room.questionsLoaded

\* C11: once the bootstrap data is marked loaded, the question bank and the config
\* never change again, so the question of an outstanding awaitingAnswer stays in
\* the bank with its correct index.
C11_LoadedDataIsStable ==
    [][Loaded(R) =>
          /\ Loaded(R')
          /\ R'.questions = R.questions
          /\ R'.config = R.config]_vars

\* C12: at most one bootstrap fetch is ever issued for the room.
C12_SingleFetch == nFetch <= 1


\* the results that are failures: transport error or status, unparsable body, a
\* payload that throws while it is read
FailedResults == {HttpError, BadJson, ThrowingBody}

\* C13: a fetch that ends in any failure leaves the room loaded with an empty bank
\* and the default config, and its continuation (state.sync or deferred roll) runs.
C13_FailureGivesDefaults ==
    [][\A cb \in Callbacks, res \in FailedResults :
          FetchCompletesWith(cb, res) =>
              /\ Loaded(R')
              /\ R'.questions = Empty
              /\ R'.config = DefaultConfig
              /\ out' # << >>]_vars


\* C14: when the pipeline of an accepted roll reaches a destination without a
\* question, nothing is shown and nothing is awaited; turnBusy and the roller's
\* in-flight marker are cleared, the turn passes to the roller's successor, the
\* roller stands on the destination, and scores and answered tiles are unchanged.
C14_NoQuestionClosesCycle ==
    [][\A t \in timers :
          (t.kind = "show" /\ t.to \notin DOMAIN R.questions /\ TimerFires(t)) =>
              /\ ~SentNext("question.show")
              /\ R.awaitingAnswer = NoAwait /\ R'.awaitingAnswer = NoAwait
              /\ ~R'.turnBusy
              /\ t.uid \notin R'.rollInFlightByUid
              /\ R.turnUid = t.uid
              /\ R'.turnUid = Successor(R.players, t.uid)
              /\ out' = << [type |-> "turn.update", turnUid |-> R'.turnUid,
                            to |-> Everyone] >>
              /\ R.pos[t.uid] = t.to
              /\ R'.pos = R.pos
              /\ R'.score = R.score
              /\ R'.answeredCorrectTiles = R.answeredCorrectTiles
              /\ {x \in timers' : x.kind = "timeout"} = {}]_vars

\* a roll on an empty bank has closed: the roller stands on its destination, the
\* other player has the turn, and only the new turn holder was announced
C14_Witness ==
    /\ R.questions = Empty /\ Loaded(R)
    /\ R.players = <<1, 2>>
    /\ R.pos[1] > 0 /\ R.pos[2] = 0
    /\ R.turnUid = 2
    /\ ~R.turnBusy /\ R.rollInFlightByUid = {} /\ R.awaitingAnswer = NoAwait
    /\ nRolls = 1
    /\ out = << [type |-> "turn.update", turnUid |-> 2, to |-> Everyone] >>


\* the events of a roll cycle, in the order the handler emitted them
CycleEvents ==
    {"roll.result", "move.commit", "question.show", "answer.result", "turn.update"}
RECURSIVE EventTypes(_)
EventTypes(o) ==
    IF o = << >> THEN << >>
    ELSE IF Head(o).type \in CycleEvents THEN <<Head(o).type>> \o EventTypes(Tail(o))
    ELSE EventTypes(Tail(o))
\* how far the roll in progress has come, read from what the room is waiting for:
\* the commit timer after roll.result, the show timer after move.commit, the
\* answer after question.show
Stage ==
    IF \E t \in timers : t.kind = "commit" THEN "rolled"
    ELSE IF \E t \in timers : t.kind = "show" THEN "moved"
    ELSE IF R.awaitingAnswer # NoAwait THEN "shown"
    ELSE "idle"
StageNext ==
    IF \E t \in timers' : t.kind = "commit" THEN "rolled"
    ELSE IF \E t \in timers' : t.kind = "show" THEN "moved"
    ELSE IF R'.awaitingAnswer # NoAwait THEN "shown"
    ELSE "idle"

\* C15: the events of a roll come in the order roll.result, move.commit from origin
\* to destination, question.show when the destination has a question, then
\* answer.result followed by turn.update (after the move back, when the answer was
\* wrong or late); a roll.result is emitted only when no earlier roll is open, and
\* every step emits exactly the events that continue the open roll.
C15_CycleOrder ==
    [][LET ev == EventTypes(out')
       IN  \/ ev = << >> /\ StageNext = Stage
           \/ /\ Stage = "idle"
              /\ \/ ev = <<"roll.result">> /\ StageNext = "rolled"
                 \/ ev = <<"turn.update">> /\ StageNext = "idle"
           \/ /\ Stage = "rolled"
              /\ ev = <<"move.commit">> /\ StageNext = "moved"
              /\ \E t \in timers : /\ t.kind = "commit"
                                   /\ out'[1].uid = t.uid
                                   /\ out'[1].from = t.from /\ out'[1].to = t.to
           \/ /\ Stage = "moved"
              /\ \/ /\ ev # << >> /\ \A i \in 1..Len(ev) : ev[i] = "question.show"
                    /\ StageNext = "shown"
                 \/ ev = <<"turn.update">> /\ StageNext = "idle"
           \/ /\ Stage = "shown"
              /\ ev \in {<<"answer.result", "turn.update">>,
                         <<"move.commit", "answer.result", "turn.update">>}
              /\ StageNext = "idle"]_vars

\* a roll that met a question has just been closed by the answer
C15_Witness ==
    /\ Stage = "idle"
    /\ nRolls = 1
    /\ EventTypes(out) = <<"answer.result", "turn.update">>
    /\ R.score[1] = 1


\* turn.skip is permitted: the requester holds the turn, no roll is busy and no
\* question is outstanding
SkipPermitted(uid) ==
    uid = R.turnUid /\ ~R.turnBusy /\ R.awaitingAnswer = NoAwait
\* the skip of uid took effect: the turn went to the successor and nothing else of
\* the game moved
SkipAccepted(uid) ==
    /\ R'.turnUid = Successor(R.players, uid)
    /\ out' = << [type |-> "turn.update", turnUid |-> R'.turnUid, to |-> Everyone] >>
    /\ R' = [R EXCEPT !.turnUid = R'.turnUid, !.rollInFlightByUid = @ \ {uid}]
    /\ timers' = timers
\* the request was answered with this error alone and changed nothing
RejectedWith(uid, code) ==
    OnlyError(out', uid, code) /\ R' = R /\ timers' = timers /\ fetches' = fetches

\* C16 as claimed: while the game is not over, a turn.skip is accepted exactly when
\* the requester holds the turn and nothing is busy or awaited, and every other
\* turn.skip is rejected with turn_busy and changes no state.
C16_SkipRejectedBusy ==
    [][\A uid \in Uids : (TurnSkip(uid) /\ ~R.gameOver) =>
            IF SkipPermitted(uid) THEN SkipAccepted(uid)
            ELSE RejectedWith(uid, "turn_busy")]_vars

\* C16 as amended: while the game is not over, a turn.skip from a player who does
\* not hold the turn is rejected with not_your_turn, one from the turn holder while
\* a roll is busy or a question is outstanding is rejected with turn_busy, neither
\* changes state, and every other turn.skip is accepted: the turn rotates once and
\* positions, scores, answered tiles, turnBusy and awaitingAnswer are unchanged.
C16_SkipGuards ==
    [][\A uid \in Uids : (TurnSkip(uid) /\ ~R.gameOver) =>
            IF SkipPermitted(uid) THEN SkipAccepted(uid)
            ELSE IF uid # R.turnUid THEN RejectedWith(uid, "not_your_turn")
            ELSE RejectedWith(uid, "turn_busy")]_vars

\* before any roll the first player has passed the turn to the second
C16_Witness ==
    /\ nRolls = 0
    /\ R.players = <<1, 2>>
    /\ R.turnUid = 2
    /\ ~R.gameOver
    /\ out = << [type |-> "turn.update", turnUid |-> 2, to |-> Everyone] >>


\* the submission does not name the outstanding pair of player and question
Mismatched(uid, qid) ==
    \/ R.awaitingAnswer = NoAwait
    \/ R.awaitingAnswer.uid # uid
    \/ R.awaitingAnswer.qid # qid
\* the message was dropped: no state changed, the countdown stays, nobody was told
Dropped ==
    R' = R /\ timers' = timers /\ fetches' = fetches /\ out' = << >>

\* C17 as claimed: an answer.submit that does not name the outstanding pair changes
\* no room state, leaves the countdown pending and produces no message to anyone.
C17_MismatchDropped ==
    [][\A uid \in Uids, qid \in QidInputs(R), choice \in ChoiceInputs(R) :
          (AnswerSubmit(uid, qid, choice) /\ Mismatched(uid, qid)) => Dropped]_vars

\* C17 as amended: an answer.submit that does not name the outstanding pair changes
\* no room state and leaves the countdown pending; while the game is not over it
\* produces no message, and once the game is over its sender is told game_over.
C17_MismatchDroppedUnlessOver ==
    [][\A uid \in Uids, qid \in QidInputs(R), choice \in ChoiceInputs(R) :
          (AnswerSubmit(uid, qid, choice) /\ Mismatched(uid, qid)) =>
              IF R.gameOver THEN RejectedWith(uid, "game_over") ELSE Dropped]_vars

\* a question is outstanding with its countdown pending, the game is on, and the
\* last message handled was dropped without a word
C17_Witness ==
    /\ R.awaitingAnswer # NoAwait
    /\ \E t \in timers : t.kind = "timeout" /\ t.id = R.awaitingAnswer.timeoutId
    /\ ~R.gameOver
    /\ R.turnBusy
    /\ fetches = [cb \in Callbacks |-> 0]
    /\ out = << >>


\* C18: a connection of an unseen player appends the player at position 0 with
\* score 0 and gives them the turn only when nobody holds it; a connection of a
\* known player changes only that player's socket, whatever is in progress; both
\* leave timers alone; and turnUid names a player of the roster whenever the roster
\* is not empty.
C18_ConnectionKeepsGame ==
    /\ [](R.players # << >> => R.turnUid \in Joined(R))
    /\ [][\A uid \in Uids : Connect(uid) =>
            /\ timers' = timers
            /\ IF uid \in Joined(R)
               THEN R' = [R EXCEPT !.ws[uid] = nConn']
               ELSE R' = [R EXCEPT
                            !.players = Append(@, uid),
                            !.pos = @ @@ (uid :> 0),
                            !.score = @ @@ (uid :> 0),
                            !.ws = @ @@ (uid :> nConn'),
                            !.turnUid = IF R.turnUid = NoUid THEN uid ELSE @]]_vars

\* the challenged player has come back on a second socket while their question is
\* outstanding, and was sent the snapshot
C18_Witness ==
    /\ R.awaitingAnswer # NoAwait
    /\ R.awaitingAnswer.uid = 1
    /\ R.ws[1] = 2
    /\ R.turnBusy /\ R.turnUid = 1
    /\ Len(out) = 1 /\ out[1].type = "state.sync" /\ out[1].to = 1


\* ------------------------------------------------------------- scheduling
\* Every timer the server has set and not cleared is run by the event loop: a
\* pending timer does not stay pending for ever.  Nothing is assumed of clients
\* (they may never answer) or of the questions service.
SpecLive == Spec /\ WF_vars(\E t \in timers : TimerFires(t))

\* C19: every accepted roll resolves: whenever turnBusy is set, a state follows in
\* which turnBusy is clear, nothing is awaited and no roll is in flight, whatever
\* the clients do or leave undone.
C19_RollResolves ==
    R.turnBusy ~>
        (~R.turnBusy /\ R.awaitingAnswer = NoAwait /\ R.rollInFlightByUid = {})

\* the countdown has resolved a question after the game was ended, when no answer
\* is taken any more: the player is back, the result and the next turn were sent
C19_Witness ==
    /\ R.gameOver
    /\ ~R.turnBusy /\ R.awaitingAnswer = NoAwait /\ R.rollInFlightByUid = {}
    /\ timers = {}
    /\ EventTypes(out) = <<"move.commit", "answer.result", "turn.update">>


\* C20: once gameOver is set nothing of the game changes any more (positions,
\* scores, turnUid, answered tiles, awaitingAnswer) and no event of a roll cycle is
\* emitted, also for a roll that was accepted before the game ended.
C20_GameOverTerminal ==
    [][R.gameOver =>
          /\ \A u \in Joined(R) : R'.pos[u] = R.pos[u] /\ R'.score[u] = R.score[u]
          /\ R'.turnUid = R.turnUid
          /\ R'.answeredCorrectTiles = R.answeredCorrectTiles
          /\ R'.awaitingAnswer = R.awaitingAnswer
          /\ EventTypes(out') = << >>]_vars

====
